---------------------------- MODULE Spec2Model ----------------------------
(***************************************************************************)
(* Model of the FFmpeg camera manager (src/ffmpeg_manager).                *)
(*                                                                         *)
(* Spec  : the Application object (app.py) driven through its operations   *)
(*         update_camera_threads and restart_camera_thread by concurrent   *)
(*         callers; a step of an operation ends where its caller blocks    *)
(*         (lock, file read, thread.join, thread.start).                   *)
(*         The threads it spawns call run_ffmpeg_for_camera with six       *)
(*         positional arguments (app.py:56) although the function takes    *)
(*         five (process_manager.py:57), so each spawned thread ends at    *)
(*         its entry with a TypeError.                                     *)
(* SpecW : run_ffmpeg_for_camera (process_manager.py) called with its five *)
(*         declared parameters, thread_state being the record of           *)
(*         Application.state for that camera (the alias app.py:64-66       *)
(*         sets up), with the stop event, the external process, the clock  *)
(*         and a concurrent save_state as environment.                     *)
(* SpecWLive : SpecW with weak fairness of the worker's steps and of the   *)
(*         clock.                                                          *)
(* SpecRestart : one running worker restarted through                      *)
(*         restart_camera_thread, with the clock of SpecW and the 15 s     *)
(*         timeout of thread.join.                                         *)
(* SpecPoll : the reconcile pass beside the poller thread                  *)
(*         (poll_mediamtx_api).                                            *)
(* SpecDown : the reconcile pass, the signal handler shutdown_handler and  *)
(*         the start of the next process from the documents left behind.   *)
(* SpecB : build_ffmpeg_command (ffmpeg_builder.py) applied to the camera  *)
(*         mappings of a bounded set of documents, directly and through    *)
(*         the compile step of the worker, and _get_sanitized_command      *)
(*         applied to the compiled command.                                *)
(***************************************************************************)
EXTENDS Integers, FiniteSets, Sequences, TLC

VARIABLES configDoc, running_threads, state, disk, status, threads,
          config_lock, pc, loc, reconciled, w, now, build

vars == <<configDoc, running_threads, state, disk, status, threads,
          config_lock, pc, loc, reconciled, w, now, build>>

\* what no step of a worker changes
appVars == <<configDoc, running_threads, threads, config_lock, pc, loc, reconciled,
             build>>

-----------------------------------------------------------------------------
(* Bounds *)

MaxIter == 3

StartTime == 1000

TickStep == 300

MaxTime == 2500

(* Program constants *)

fallback_retry_seconds == 600

DefaultRestartDelay == 15

\* get_stream_resolution: subprocess.run(command, ..., timeout=60)
ProbeTimeout == 60

\* process.communicate(timeout=10)
CommunicateTimeout == 10

\* stop_event.wait(0.5), in the whole seconds of the clock
PollSeconds == 1

\* thread.join(timeout=15)
JoinTimeout == 15

LongRestartDelay == 700

None == -1

\* the builder has not been called
NotBuilt == [input |-> "none", hwaccel_available |-> TRUE, called |-> "none",
             use_hwaccel_this_run |-> FALSE, result |-> [kind |-> "none"],
             logged |-> FALSE, sanitized_command_str |-> ""]

-----------------------------------------------------------------------------
(* Data *)

Cams == {"A", "B"}

Workers == {"A"}

Recs == {"r1"}

Apis == {"a1"}

Handlers == {"h1"}

Pollers == {"m1"}

Procs == Recs \cup Apis \cup Handlers \cup Pollers

RestartDelays == {DefaultRestartDelay, LongRestartDelay}

DefaultState == [hwaccel_available |-> TRUE, fallback_timestamp |-> None]

FallbackState(t) == [hwaccel_available |-> FALSE, fallback_timestamp |-> t]

CameraConfig(c, h, d) == [name |-> c, hwaccel |-> h, restart_delay |-> d]

\* the configurations a document gives a camera: two values for "A", one for "B"
DocConfigs(c) == {CameraConfig(c, h, DefaultRestartDelay) : h \in IF c = "A" THEN BOOLEAN ELSE {TRUE}}

WorkerConfigs(c) == {CameraConfig(c, h, d) : h \in BOOLEAN, d \in RestartDelays}

EmptyMap == [c \in {} |-> DefaultState]

NoCameras == [c \in {} |-> CameraConfig("A", TRUE, DefaultRestartDelay)]

Put(m, k, v) == [x \in (DOMAIN m) \cup {k} |-> IF x = k THEN v ELSE m[x]]

Del(m, k) == [x \in (DOMAIN m) \ {k} |-> m[x]]

CameraMaps == UNION {{f \in [S -> UNION {DocConfigs(c) : c \in S}] :
                        \A c \in S : f[c].name = c} : S \in SUBSET Cams}

MalformedKinds == {"unreadable", "yamlerr", "empty", "noname"}

Docs == {[kind |-> "ok", cameras |-> f] : f \in CameraMaps}
        \cup {[kind |-> k, cameras |-> NoCameras] : k \in MalformedKinds}

\* the durable documents found at startup: none, or a fallback recorded for "A"
StateMaps == {EmptyMap, [c \in {"A"} |-> FallbackState(StartTime)]}

-----------------------------------------------------------------------------
(* CameraStatus (camera_status.py): one entry per camera; "ABSENT" is no    *)
(* entry, "NOSTATUS" an entry that has details but no 'status' key.         *)

CS_set(st, c, v) == [st EXCEPT ![c] = v]

CS_update_details(st, c) == [st EXCEPT ![c] = IF @ = "ABSENT" THEN "NOSTATUS" ELSE @]

CS_delete(st, c) == [st EXCEPT ![c] = "ABSENT"]

-----------------------------------------------------------------------------
(* Application                                                              *)

NoEntry == [stop_event |-> FALSE, config |-> CameraConfig("A", TRUE, DefaultRestartDelay),
            state |-> DefaultState]

Loc0 == [cam |-> "A", cfg |-> CameraConfig("A", TRUE, DefaultRestartDelay),
         ist_given |-> FALSE, ist |-> DefaultState, thread_info |-> NoEntry,
         new_cameras |-> NoCameras, running_cam_names |-> {},
         todo_rm |-> {}, todo_new |-> {}, cont |-> "idle", cont2 |-> "idle",
         stopped |-> {}, started |-> {}, second |-> FALSE]

IdlePcs == {"idle", "raised", "u_abort", "r_true", "r_false"}

\* load_state: the durable document, or {} when the file does not exist
load_state(d) == d

\* save_state: whole-document rewrite of the in-memory mapping
save_state(s) == s

\* LoadConfig with "config = yaml.safe_load(f) or {}": an empty document is
\* read as a document without cameras
LoadConfig_Lenient(doc) ==
    CASE doc.kind \in {"ok", "empty"} -> [result |-> "ok", cameras |-> doc.cameras]
      [] doc.kind \in {"unreadable", "yamlerr"} -> [result |-> "caught", cameras |-> NoCameras]
      [] OTHER -> [result |-> "raise", cameras |-> NoCameras]

\* The try block of update_camera_threads: "ok" yields the name -> config
\* mapping; IOError / YAMLError are caught and the pass returns; an empty
\* document (None.get) or an entry without camera/name raises past the handler.
LoadConfig(doc) ==
    CASE doc.kind = "ok" -> [result |-> "ok", cameras |-> doc.cameras]
      [] doc.kind \in {"unreadable", "yamlerr"} -> [result |-> "caught", cameras |-> NoCameras]
      [] OTHER -> [result |-> "raise", cameras |-> NoCameras]

Goto(p, l) == pc' = [pc EXCEPT ![p] = l]

\* an exception leaves the operation; a pass holding config_lock releases it
Raise(p) ==
    /\ Goto(p, "raised")
    /\ config_lock' = IF config_lock = p THEN "free" ELSE config_lock
    /\ loc' = [loc EXCEPT ![p] = Loc0]
    /\ UNCHANGED <<configDoc, running_threads, state, disk, status, threads, reconciled>>


\* what no step of the Application changes
workerVars == <<w, now, build>>

-----------------------------------------------------------------------------
(* stop_camera_thread (app.py:72-88), run by caller p for loc[p].cam.       *)
(* A step ends where the caller blocks: at thread.join.                     *)

\* stop_event.set(): the event is the one the worker thread of the camera
\* tests, where such a thread runs
EventSet(c) ==
    IF w[c].pc = "none" \/ w[c].stop THEN w
    ELSE [w EXCEPT ![c].stop = TRUE, ![c].stop_time = now]

\* thread.join(timeout=15) returns: the worker thread has ended, or 15 s have
\* passed since the call (made as the event was set)
JoinReturns(c) ==
    \/ w[c].pc \in {"none", "done"}
    \/ now >= w[c].stop_time + JoinTimeout

\* lines 74-79: if cam_name in self.running_threads: ... stop_event.set()
S_set(p) ==
    /\ pc[p] = "s_set"
    /\ IF loc[p].cam \in DOMAIN running_threads
          THEN /\ running_threads' = [running_threads EXCEPT ![loc[p].cam].stop_event = TRUE]
               /\ w' = EventSet(loc[p].cam)
               /\ Goto(p, "s_join")
          ELSE /\ Goto(p, loc[p].cont)
               /\ UNCHANGED <<running_threads, w>>
    /\ UNCHANGED <<configDoc, state, disk, status, threads, config_lock, loc,
                   reconciled, now, build>>

\* lines 80-85: join(timeout=15) has returned (the thread ended or the timeout
\* expired); del self.running_threads[cam_name] raises KeyError when another
\* caller removed the entry meanwhile; the record of self.state is deleted and
\* the document saved; the status entry is deleted
S_join(p) ==
    /\ pc[p] = "s_join"
    /\ JoinReturns(loc[p].cam)
    /\ IF loc[p].cam \in DOMAIN running_threads
          THEN /\ running_threads' = Del(running_threads, loc[p].cam)
               /\ state' = Del(state, loc[p].cam)
               /\ disk' = IF loc[p].cam \in DOMAIN state
                             THEN save_state(Del(state, loc[p].cam)) ELSE disk
               /\ status' = CS_delete(status, loc[p].cam)
               /\ Goto(p, loc[p].cont)
               /\ UNCHANGED <<configDoc, threads, config_lock, loc, reconciled>>
          ELSE Raise(p)
    /\ UNCHANGED workerVars

stop_camera_thread(p) == S_set(p) \/ S_join(p)

-----------------------------------------------------------------------------
(* start_camera_thread (app.py:42-70), run by caller p with loc[p].cfg and   *)
(* the optional initial_state loc[p].ist. A step ends at thread.start().     *)

\* lines 44-59: cam_name, stop_event, default initial_state,
\* threading.Thread(target=run_ffmpeg_for_camera, args=(self, ...)).start()
T_spawn(p) ==
    /\ pc[p] = "t_spawn"
    /\ threads' = threads \cup {loc[p].cfg.name}
    /\ loc' = [loc EXCEPT ![p].cam = loc[p].cfg.name,
                          ![p].ist = IF loc[p].ist_given THEN loc[p].ist
                                     ELSE IF loc[p].cfg.name \in DOMAIN state
                                             THEN state[loc[p].cfg.name]
                                             ELSE DefaultState]
    /\ Goto(p, "t_reg")
    /\ UNCHANGED <<configDoc, running_threads, state, disk, status,
                   config_lock, reconciled, workerVars>>

\* lines 60-67: self.running_threads[cam_name] = {...};
\* self.state[cam_name] = initial_state; self.save_state(); return
T_reg(p) ==
    /\ pc[p] = "t_reg"
    /\ running_threads' = Put(running_threads, loc[p].cam,
                              [stop_event |-> FALSE, config |-> loc[p].cfg,
                               state |-> loc[p].ist])
    /\ state' = Put(state, loc[p].cam, loc[p].ist)
    /\ disk' = save_state(Put(state, loc[p].cam, loc[p].ist))
    /\ Goto(p, loc[p].cont2)
    /\ loc' = [loc EXCEPT ![p].cfg = Loc0.cfg, ![p].ist = Loc0.ist,
                          ![p].ist_given = FALSE, ![p].cont2 = "idle"]
    /\ UNCHANGED <<configDoc, status, threads, config_lock, reconciled, workerVars>>

start_camera_thread(p) == T_spawn(p) \/ T_reg(p)

\* The spawned thread: run_ffmpeg_for_camera(self, camera_config, logger,
\* camera_status, stop_event, initial_state) is six arguments for a function of
\* five parameters: TypeError at the call, the thread ends. threads is the set
\* of cameras for which a spawned thread has yet to reach that call.
ThreadEntry(c) ==
    /\ c \in threads
    /\ threads' = threads \ {c}
    /\ UNCHANGED <<configDoc, running_threads, state, disk, status,
                   config_lock, pc, loc, reconciled, workerVars>>

-----------------------------------------------------------------------------
(* restart_camera_thread (app.py:90-106), run by an API caller p             *)

CallRestart(p, c) ==
    /\ p \in Apis
    /\ pc[p] \in IdlePcs
    /\ loc' = [loc EXCEPT ![p] = [Loc0 EXCEPT !.cam = c]]
    /\ Goto(p, "r_chk")
    /\ UNCHANGED <<configDoc, running_threads, state, disk, status, threads,
                   config_lock, reconciled, workerVars>>

\* lines 92-98: if cam_name in self.running_threads: thread_info = ...;
\* self.stop_camera_thread(cam_name) up to its join (74-79);
\* otherwise (102-106) return False
R_chk(p) ==
    /\ pc[p] = "r_chk"
    /\ IF loc[p].cam \in DOMAIN running_threads
          THEN /\ loc' = [loc EXCEPT ![p].thread_info = running_threads[loc[p].cam],
                                     ![p].cont = "r_start"]
               /\ running_threads' = [running_threads EXCEPT ![loc[p].cam].stop_event = TRUE]
               /\ w' = EventSet(loc[p].cam)
               /\ Goto(p, "s_join")
          ELSE /\ Goto(p, "r_false")
               /\ loc' = [loc EXCEPT ![p] = Loc0]
               /\ UNCHANGED <<running_threads, w>>
    /\ UNCHANGED <<configDoc, state, disk, status, threads,
                   config_lock, reconciled, now, build>>

\* line 99: self.start_camera_thread(thread_info["config"], thread_info["state"]);
\* line 100 (return True) is reached at "r_true"
R_start(p) ==
    /\ pc[p] = "r_start"
    /\ loc' = [loc EXCEPT ![p].cfg = loc[p].thread_info.config,
                          ![p].ist = loc[p].thread_info.state,
                          ![p].ist_given = TRUE,
                          ![p].cont = "idle",
                          ![p].cont2 = "r_true"]
    /\ Goto(p, "t_spawn")
    /\ UNCHANGED <<configDoc, running_threads, state, disk, status, threads,
                   config_lock, reconciled, workerVars>>

restart_camera_thread(p) == R_chk(p) \/ R_start(p)

-----------------------------------------------------------------------------
(* update_camera_threads (app.py:108-148), run by a reconcile caller p       *)

CallUpdate(p) ==
    /\ p \in Recs
    /\ pc[p] \in IdlePcs
    /\ loc' = [loc EXCEPT ![p] = Loc0]
    /\ Goto(p, "u_lock")
    /\ UNCHANGED <<configDoc, running_threads, state, disk, status, threads,
                   config_lock, reconciled, workerVars>>

\* line 110: with self.config_lock
U_lock(p) ==
    /\ pc[p] = "u_lock"
    /\ config_lock = "free"
    /\ config_lock' = p
    /\ loc' = [loc EXCEPT ![p].second = reconciled]
    /\ Goto(p, "u_load")
    /\ UNCHANGED <<configDoc, running_threads, state, disk, status, threads,
                   reconciled, workerVars>>

\* lines 115-125: read and index the document; a caught error returns
U_load(p) ==
    /\ pc[p] = "u_load"
    /\ LET r == LoadConfig(configDoc) IN
         CASE r.result = "ok" ->
                /\ loc' = [loc EXCEPT ![p].new_cameras = r.cameras]
                /\ Goto(p, "u_sets")
                /\ UNCHANGED <<configDoc, running_threads, state, disk, status, threads,
                               config_lock, reconciled>>
           [] r.result = "caught" ->
                /\ Goto(p, "u_abort")
                /\ config_lock' = "free"
                /\ loc' = [loc EXCEPT ![p] = Loc0]
                /\ UNCHANGED <<configDoc, running_threads, state, disk, status, threads,
                               reconciled>>
           [] OTHER -> Raise(p)
    /\ UNCHANGED workerVars

\* lines 127-128: running_cam_names, new_cam_names
U_sets(p) ==
    /\ pc[p] = "u_sets"
    /\ loc' = [loc EXCEPT ![p].running_cam_names = DOMAIN running_threads,
                          ![p].todo_rm = (DOMAIN running_threads) \ (DOMAIN loc[p].new_cameras),
                          ![p].todo_new = DOMAIN loc[p].new_cameras]
    /\ Goto(p, "u_rm")
    /\ UNCHANGED <<configDoc, running_threads, state, disk, status, threads,
                   config_lock, reconciled, workerVars>>

\* lines 131-132: for cam_name in running_cam_names - new_cam_names: stop
U_rm(p) ==
    /\ pc[p] = "u_rm"
    /\ IF loc[p].todo_rm = {}
          THEN /\ Goto(p, "u_new")
               /\ UNCHANGED loc
          ELSE \E c \in loc[p].todo_rm :
                 /\ loc' = [loc EXCEPT ![p].todo_rm = @ \ {c},
                                       ![p].cam = c,
                                       ![p].cont = "u_rm",
                                       ![p].stopped = @ \cup {c}]
                 /\ Goto(p, "s_set")
    /\ UNCHANGED <<configDoc, running_threads, state, disk, status, threads,
                   config_lock, reconciled, workerVars>>

\* lines 135-147: for cam_name, cam_config in new_cameras.items():
\* start a new camera, stop a changed one, leave an unchanged one
U_new(p) ==
    /\ pc[p] = "u_new"
    /\ IF loc[p].todo_new = {}
          THEN /\ Goto(p, "u_done")
               /\ UNCHANGED <<loc, config_lock>>
               /\ UNCHANGED <<configDoc, running_threads, state, disk, status, threads,
                              reconciled>>
          ELSE \E c \in loc[p].todo_new :
                 LET cfg == loc[p].new_cameras[c] IN
                 IF c \notin loc[p].running_cam_names
                    THEN /\ loc' = [loc EXCEPT ![p].todo_new = @ \ {c},
                                               ![p].cam = c,
                                               ![p].cfg = cfg,
                                               ![p].ist_given = FALSE,
                                               ![p].cont2 = "u_new",
                                               ![p].started = @ \cup {c}]
                         /\ Goto(p, "t_spawn")
                         /\ UNCHANGED <<configDoc, running_threads, state, disk, status,
                                        threads, config_lock, reconciled>>
                    ELSE IF c \notin DOMAIN running_threads
                            THEN Raise(p)
                            ELSE /\ IF cfg # running_threads[c].config
                                       THEN /\ loc' = [loc EXCEPT ![p].todo_new = @ \ {c},
                                                                  ![p].cam = c,
                                                                  ![p].cfg = cfg,
                                                                  ![p].cont = "u_chg",
                                                                  ![p].stopped = @ \cup {c}]
                                            /\ Goto(p, "s_set")
                                       ELSE /\ loc' = [loc EXCEPT ![p].todo_new = @ \ {c}]
                                            /\ UNCHANGED pc
                                 /\ UNCHANGED <<configDoc, running_threads, state, disk,
                                                status, threads, config_lock, reconciled>>
    /\ UNCHANGED workerVars

\* line 148: self.start_camera_thread(cam_config) after the stop of a changed camera
U_chg(p) ==
    /\ pc[p] = "u_chg"
    /\ loc' = [loc EXCEPT ![p].ist_given = FALSE,
                          ![p].cont2 = "u_new",
                          ![p].started = @ \cup {loc[p].cam}]
    /\ Goto(p, "t_spawn")
    /\ UNCHANGED <<configDoc, running_threads, state, disk, status, threads,
                   config_lock, reconciled, workerVars>>

\* end of the with block: the pass is complete, config_lock is released
U_done(p) ==
    /\ pc[p] = "u_done"
    /\ config_lock' = "free"
    /\ reconciled' = (configDoc.kind = "ok" /\ configDoc.cameras = loc[p].new_cameras)
    /\ Goto(p, "idle")
    /\ loc' = [loc EXCEPT ![p] = Loc0]
    /\ UNCHANGED <<configDoc, running_threads, state, disk, status, threads,
                   workerVars>>

update_camera_threads(p) ==
    \/ U_lock(p) \/ U_load(p) \/ U_sets(p) \/ U_rm(p) \/ U_new(p) \/ U_chg(p) \/ U_done(p)

\* The configuration document is rewritten by its editor. Only U_load reads
\* the document, so a rewrite made at any other moment is the same rewrite
\* made when a pass is about to read.
EditConfig(d) ==
    /\ d \in Docs
    /\ d # configDoc
    /\ configDoc' = d
    /\ reconciled' = FALSE
    /\ \E p \in Recs : pc[p] = "u_load"
    /\ UNCHANGED <<running_threads, state, disk, status, threads,
                   config_lock, pc, loc, workerVars>>

-----------------------------------------------------------------------------
(* shutdown_handler (app.py:191-202), run by the signal handler p, and the  *)
(* construction of the Application by the process started afterwards        *)

CallShutdown(p) ==
    /\ p \in Handlers
    /\ pc[p] \in IdlePcs
    /\ loc' = [loc EXCEPT ![p] = Loc0]
    /\ Goto(p, "h_save")
    /\ UNCHANGED <<configDoc, running_threads, state, disk, status, threads,
                   config_lock, reconciled, workerVars>>

\* line 197: self.save_state()
H_save(p) ==
    /\ pc[p] = "h_save"
    /\ disk' = save_state(state)
    /\ Goto(p, "h_list")
    /\ UNCHANGED <<configDoc, running_threads, state, status, threads,
                   config_lock, loc, reconciled, workerVars>>

\* lines 198-199: self.observer.stop(); list(self.running_threads.keys())
H_list(p) ==
    /\ pc[p] = "h_list"
    /\ loc' = [loc EXCEPT ![p].running_cam_names = DOMAIN running_threads,
                          ![p].todo_rm = DOMAIN running_threads]
    /\ Goto(p, "h_loop")
    /\ UNCHANGED <<configDoc, running_threads, state, disk, status, threads,
                   config_lock, reconciled, workerVars>>

\* lines 199-202: for cam_name in ...: self.stop_camera_thread(cam_name);
\* then self.observer.join(); sys.exit(0)
H_loop(p) ==
    /\ pc[p] = "h_loop"
    /\ IF loc[p].todo_rm = {}
          THEN /\ Goto(p, "h_exit")
               /\ UNCHANGED loc
          ELSE \E c \in loc[p].todo_rm :
                 /\ loc' = [loc EXCEPT ![p].todo_rm = @ \ {c},
                                       ![p].cam = c,
                                       ![p].cont = "h_loop",
                                       ![p].stopped = @ \cup {c}]
                 /\ Goto(p, "s_set")
    /\ UNCHANGED <<configDoc, running_threads, state, disk, status, threads,
                   config_lock, reconciled, workerVars>>

shutdown_handler(p) == H_save(p) \/ H_list(p) \/ H_loop(p)

\* The process has exited (sys.exit(0), every thread of it gone) and is
\* started again: Application.__init__ (app.py:18-26) with the configuration
\* document and the state document as the old process left them.
Startup ==
    /\ \E p \in Handlers : pc[p] = "h_exit"
    /\ running_threads' = [c \in {} |-> NoEntry]
    /\ state' = load_state(disk)
    /\ status' = [c \in Cams |-> "ABSENT"]
    /\ threads' = {}
    /\ config_lock' = "free"
    /\ pc' = [p \in Procs |-> "idle"]
    /\ loc' = [p \in Procs |-> Loc0]
    /\ reconciled' = FALSE
    /\ UNCHANGED <<configDoc, disk, workerVars>>

-----------------------------------------------------------------------------
(* poll_mediamtx_api (app.py:150-189), one round of the loop run by the     *)
(* poller thread p; a round whose request fails changes nothing.            *)

CallPoll(p) ==
    /\ p \in Pollers
    /\ pc[p] \in IdlePcs
    /\ loc' = [loc EXCEPT ![p] = Loc0]
    /\ Goto(p, "p_snap")
    /\ UNCHANGED <<configDoc, running_threads, state, disk, status, threads,
                   config_lock, reconciled, workerVars>>

\* lines 160-161: with self.config_lock: running_cams = list(self.running_threads.keys())
\* (the lock is taken and released around this one statement)
P_snap(p) ==
    /\ pc[p] = "p_snap"
    /\ config_lock = "free"
    /\ loc' = [loc EXCEPT ![p].running_cam_names = DOMAIN running_threads,
                          ![p].todo_new = DOMAIN running_threads]
    /\ Goto(p, "p_upd")
    /\ UNCHANGED <<configDoc, running_threads, state, disk, status, threads,
                   config_lock, reconciled, workerVars>>

\* lines 163-182: for cam_name in running_cams: ...
\* self.camera_status.update_details(cam_name, details); line 189: sleep
P_upd(p) ==
    /\ pc[p] = "p_upd"
    /\ IF loc[p].todo_new = {}
          THEN /\ Goto(p, "idle")
               /\ loc' = [loc EXCEPT ![p] = Loc0]
               /\ UNCHANGED status
          ELSE \E c \in loc[p].todo_new :
                 /\ status' = CS_update_details(status, c)
                 /\ loc' = [loc EXCEPT ![p].todo_new = @ \ {c}, ![p].cam = c]
                 /\ UNCHANGED pc
    /\ UNCHANGED <<configDoc, running_threads, state, disk, threads,
                   config_lock, reconciled, workerVars>>

poll_mediamtx_api(p) == P_snap(p) \/ P_upd(p)

-----------------------------------------------------------------------------
WIdle == [pc |-> "none", cfg |-> CameraConfig("A", TRUE, DefaultRestartDelay),
          stop |-> FALSE, hwaccel_available |-> TRUE, fallback_timestamp |-> None,
          use_hwaccel_this_run |-> FALSE, proc |-> "none", returncode |-> 0,
          cuda |-> FALSE, fb |-> FALSE, deadline |-> 0, iter |-> 0, stop_time |-> 0]

\* Application.__init__ (app.py:18-26): no managed thread, the state loaded
\* from the durable document
Init ==
    /\ configDoc \in Docs
    /\ disk \in StateMaps
    /\ state = load_state(disk)
    /\ running_threads = [c \in {} |-> NoEntry]
    /\ status = [c \in Cams |-> "ABSENT"]
    /\ threads = {}
    /\ config_lock = "free"
    /\ pc = [p \in Procs |-> "idle"]
    /\ loc = [p \in Procs |-> Loc0]
    /\ reconciled = FALSE
    /\ w = [c \in Cams |-> WIdle]
    /\ now = StartTime
    /\ build = NotBuilt

Next ==
    \/ \E p \in Procs : CallUpdate(p)
    \/ \E p \in Procs : update_camera_threads(p)
    \/ \E p \in Procs, c \in Cams : CallRestart(p, c)
    \/ \E p \in Procs : restart_camera_thread(p)
    \/ \E p \in Procs : stop_camera_thread(p)
    \/ \E p \in Procs : start_camera_thread(p)
    \/ \E c \in Cams : ThreadEntry(c)
    \/ \E d \in Docs : EditConfig(d)

Spec == Init /\ [][Next]_vars

\* The passes and the poller thread that Application.run starts
\* (app.py:233, 243-244)
NextPoll ==
    \/ \E p \in Procs : CallUpdate(p)
    \/ \E p \in Procs : update_camera_threads(p)
    \/ \E p \in Procs : stop_camera_thread(p)
    \/ \E p \in Procs : start_camera_thread(p)
    \/ \E c \in Cams : ThreadEntry(c)
    \/ \E d \in Docs : EditConfig(d)
    \/ \E p \in Procs : CallPoll(p)
    \/ \E p \in Procs : poll_mediamtx_api(p)

SpecPoll == Init /\ [][NextPoll]_vars

\* The passes and the shutdown handler that Application.run installs
\* (app.py:230-233), one process after another
NextDown ==
    \/ \E p \in Procs : CallUpdate(p)
    \/ \E p \in Procs : update_camera_threads(p)
    \/ \E p \in Procs : stop_camera_thread(p)
    \/ \E p \in Procs : start_camera_thread(p)
    \/ \E c \in Cams : ThreadEntry(c)
    \/ \E d \in Docs : EditConfig(d)
    \/ \E p \in Procs : CallShutdown(p)
    \/ \E p \in Procs : shutdown_handler(p)
    \/ Startup

SpecDown == Init /\ [][NextDown]_vars

-----------------------------------------------------------------------------
(* Properties of the Application, checked under Spec                        *)

InPass(p) == config_lock = p

RestartSteps == {"s_join", "r_start", "t_spawn", "t_reg"}

Managed == DOMAIN running_threads

\* C1: when an update_camera_threads pass completes, the managed identities
\* are exactly the identities of the configuration it read; every identity
\* that was managed and is not desired was stopped, every desired identity
\* that was not managed was started.
C1_Convergence ==
    \A p \in Recs :
       pc[p] = "u_done" =>
          /\ Managed = DOMAIN loc[p].new_cameras
          /\ loc[p].running_cam_names \ DOMAIN loc[p].new_cameras \subseteq loc[p].stopped
          /\ (DOMAIN loc[p].new_cameras) \ loc[p].running_cam_names \subseteq loc[p].started

\* C2: a pass that starts after a pass has completed for the present content of
\* the configuration document, the document being unchanged since, issues no
\* stop and no start.
C2_Idempotent ==
    \A p \in Recs :
       (InPass(p) /\ loc[p].second /\ reconciled) =>
          (loc[p].stopped = {} /\ loc[p].started = {})

\* C3: the stop/start steps of restart_camera_thread never execute while an
\* update_camera_threads pass is in progress, and at most one pass is in
\* progress.
C3_MutualExclusion ==
    /\ \A a \in Apis : pc[a] \in RestartSteps => \A p \in Recs : ~InPass(p)
    /\ Cardinality({p \in Recs : pc[p] \notin (IdlePcs \cup {"u_lock"})}) <= 1

\* C4: a pass that reads a malformed or unreadable document ends at that
\* read, having issued no stop and no start, with running_threads, the
\* persistent state (memory and document), the status store and the threads
\* unchanged and the guard released.
C4_MalformedAborts ==
    [][\A p \in Recs :
         (pc[p] = "u_load" /\ pc'[p] # "u_load" /\ configDoc.kind \in MalformedKinds) =>
            /\ pc'[p] \in {"u_abort", "raised"}
            /\ config_lock' = "free"
            /\ loc[p].stopped = {} /\ loc[p].started = {}
            /\ UNCHANGED <<running_threads, state, disk, status, threads>>]_vars

\* a pass was aborted by an unreadable document while cameras were managed
C4_Witness ==
    \E p \in Recs : pc[p] = "u_abort" /\ Managed # {} /\ configDoc.kind \in MalformedKinds

\* C10: restart of an identity that is not managed returns False and changes
\* nothing; restart of a managed identity returns True (it does not raise),
\* and at its return the identity is managed with the config snapshot and the
\* recovery state it had when the restart began.
C10_Restart ==
    [][\A a \in Apis :
         /\ (pc[a] = "r_chk" /\ pc'[a] = "r_false") =>
               /\ loc[a].cam \notin Managed
               /\ UNCHANGED <<running_threads, state, disk, status, threads>>
         /\ (pc[a] = "r_chk" /\ pc'[a] # "r_chk" /\ loc[a].cam \in Managed) =>
               pc'[a] # "r_false"
         /\ (pc[a] \in RestartSteps /\ pc'[a] # pc[a]) => pc'[a] # "raised"
         /\ (pc[a] # "r_true" /\ pc'[a] = "r_true") =>
               /\ loc[a].cam \in DOMAIN running_threads'
               /\ running_threads'[loc[a].cam].config = loc[a].thread_info.config
               /\ running_threads'[loc[a].cam].state = loc[a].thread_info.state]_vars

-----------------------------------------------------------------------------
\* C11: when a pass restarts a camera whose configuration changed, the
\* durable record of that camera is still in the document after the stop, and
\* the new entry starts from the durable record if there is one and from the
\* defaults otherwise.
C11_ConfigRestartState ==
    [][\A p \in Recs :
         /\ (pc[p] = "s_join" /\ loc[p].cont = "u_chg" /\ pc'[p] = "u_chg"
                /\ loc[p].cam \in DOMAIN disk) =>
               /\ loc[p].cam \in DOMAIN disk'
               /\ disk'[loc[p].cam] = disk[loc[p].cam]
         /\ (pc[p] = "t_reg" /\ loc[p].cam \in loc[p].stopped /\ pc'[p] = "u_new") =>
               running_threads'[loc[p].cam].state =
                  IF loc[p].cam \in DOMAIN disk THEN disk[loc[p].cam] ELSE DefaultState]_vars

-----------------------------------------------------------------------------
\* C13: at the end of a pass, a camera that was managed when the pass began
\* and is absent from the configuration it read is not managed and has no
\* record in the persistent state, in the state document or in the status
\* store.
C13_RemovalCleanup ==
    \A p \in Recs :
       pc[p] = "u_done" =>
          \A c \in loc[p].running_cam_names \ DOMAIN loc[p].new_cameras :
             /\ c \notin Managed
             /\ c \notin DOMAIN state
             /\ c \notin DOMAIN disk
             /\ status[c] = "ABSENT"

-----------------------------------------------------------------------------

\* C18: start_camera_thread registers the camera with the config snapshot it
\* was given, and the thread it spawned, when it calls its target, enters the
\* supervision loop of that camera (from which it sets CONNECTING and
\* launches the process).
C18_StartBeginsSupervision ==
    [][/\ \A p \in Procs :
            (pc[p] = "t_reg" /\ pc'[p] # "t_reg") =>
               /\ loc[p].cam \in DOMAIN running_threads'
               /\ running_threads'[loc[p].cam].config = loc[p].cfg
       /\ \A c \in Cams :
            (c \in threads /\ c \notin threads') => w'[c].pc = "loop"]_vars

-----------------------------------------------------------------------------

(* Properties of the status store, checked under SpecPoll                   *)

\* C14: an entry of the status store is created or written only by a step of
\* the worker of that camera.
C14_StatusSingleWriter ==
    [][\A c \in Cams :
         (status'[c] # status[c] /\ status'[c] # "ABSENT") => w'[c] # w[c]]_vars

-----------------------------------------------------------------------------

(* Properties of shutdown and startup, checked under SpecDown               *)

\* C12: the records of the state document survive a shutdown and seed the next
\* process: a stop made by shutdown_handler leaves the durable record of the
\* stopped camera as it was, the next process loads the document, and a
\* camera started without a given state starts from its loaded record.
C12_DurableAcrossRestart ==
    [][/\ \A p \in Handlers :
            /\ (pc[p] = "s_join" /\ pc'[p] = "h_loop" /\ loc[p].cam \in DOMAIN disk) =>
                  /\ loc[p].cam \in DOMAIN disk'
                  /\ disk'[loc[p].cam] = disk[loc[p].cam]
            /\ (pc[p] = "h_exit" /\ pc'[p] = "idle") => state' = disk
       /\ \A p \in Recs :
            (pc[p] = "t_spawn" /\ pc'[p] = "t_reg" /\ ~loc[p].ist_given
                /\ loc[p].cfg.name \in DOMAIN state) =>
               loc'[p].ist = state[loc[p].cfg.name]]_vars

-----------------------------------------------------------------------------

(* run_ffmpeg_for_camera (process_manager.py:57-225) for camera c.          *)
(* w[c] holds the stop event, the locals, the state of the external process *)
(* (proc, returncode, cuda: stderr names cuda / cuvid / nvenc), the end of  *)
(* the backoff wait (deadline) and fb: a fallback has been recorded and the *)
(* iteration that follows it has not yet launched or failed; iter counts    *)
(* the iterations begun.                                                    *)

\* ReprobeDue without the interval: any recorded fallback is cleared
ReprobeDue_NoInterval(ts, t) == ts # None /\ ts # 0

\* line 73: fallback_timestamp and (time.time() - fallback_timestamp) > fallback_retry_seconds
ReprobeDue(ts, t) == ts # None /\ ts # 0 /\ (t - ts) > fallback_retry_seconds

\* line 98 without the availability recorded in thread_state
UseHwaccel_PreferenceOnly(preferred, available) == preferred

\* line 98: use_hwaccel_this_run = hwaccel_preferred and hwaccel_available
UseHwaccel(preferred, available) == preferred /\ available

WStep(c, l) == w' = [w EXCEPT ![c].pc = l]

WUnchanged == UNCHANGED <<appVars, now>>

\* line 65: while not stop_event.is_set()
W_Loop(c) ==
    /\ w[c].pc = "loop"
    /\ WStep(c, IF w[c].stop THEN "exit" ELSE "read")
    /\ UNCHANGED <<state, disk, status>>
    /\ WUnchanged

\* lines 66-73: process = None; read thread_state; test the re-probe interval
W_Read(c) ==
    /\ w[c].pc = "read"
    /\ w[c].iter < MaxIter
    /\ w' = [w EXCEPT ![c].iter = @ + 1, ![c].proc = "none", ![c].returncode = 0, ![c].cuda = FALSE,
                      ![c].hwaccel_available = state[c].hwaccel_available,
                      ![c].fallback_timestamp = state[c].fallback_timestamp,
                      ![c].pc = IF ReprobeDue(state[c].fallback_timestamp, now)
                                   THEN "restore1" ELSE "connecting"]
    /\ UNCHANGED <<state, disk, status>>
    /\ WUnchanged

\* line 79: thread_state["hwaccel_available"] = True
W_Restore1(c) ==
    /\ w[c].pc = "restore1"
    /\ state' = [state EXCEPT ![c].hwaccel_available = TRUE]
    /\ WStep(c, "restore2")
    /\ UNCHANGED <<disk, status>>
    /\ WUnchanged

\* lines 80-83: thread_state["fallback_timestamp"] = None; update the locals
W_Restore2(c) ==
    /\ w[c].pc = "restore2"
    /\ state' = [state EXCEPT ![c].fallback_timestamp = None]
    /\ w' = [w EXCEPT ![c].hwaccel_available = TRUE, ![c].fallback_timestamp = None,
                      ![c].pc = "connecting"]
    /\ UNCHANGED <<disk, status>>
    /\ WUnchanged

\* W_Connecting without the status write of line 85
W_Connecting_Skipped(c) ==
    /\ w[c].pc = "connecting"
    /\ w' = [w EXCEPT ![c].deadline = now + ProbeTimeout, ![c].pc = "probe"]
    /\ UNCHANGED <<state, disk, status>>
    /\ WUnchanged

\* line 85: camera_status.set(cam_name, "CONNECTING")
W_Connecting(c) ==
    /\ w[c].pc = "connecting"
    /\ status' = CS_set(status, c, "CONNECTING")
    /\ w' = [w EXCEPT ![c].deadline = now + ProbeTimeout, ![c].pc = "probe"]
    /\ UNCHANGED <<state, disk>>
    /\ WUnchanged

\* lines 86-91: the log line, get_input_url and get_stream_resolution, which
\* returns when ffprobe ends or after its timeout; a config without
\* ip / user / pass raises KeyError
W_Probe(c) ==
    /\ w[c].pc = "probe"
    /\ \E ok \in BOOLEAN :
          w' = [w EXCEPT ![c].deadline = 0, ![c].pc = IF ok THEN "build" ELSE "except"]
    /\ UNCHANGED <<state, disk, status>>
    /\ WUnchanged

\* lines 94-118: the effective acceleration flag, build_ffmpeg_command (which
\* raises on an unparsable maxrate), camera_status.update_details
W_Build(c) ==
    /\ w[c].pc = "build"
    /\ \/ /\ w' = [w EXCEPT ![c].use_hwaccel_this_run =
                                UseHwaccel(w[c].cfg.hwaccel, w[c].hwaccel_available),
                            ![c].pc = "launch"]
          /\ status' = CS_update_details(status, c)
       \/ /\ w' = [w EXCEPT ![c].use_hwaccel_this_run =
                                UseHwaccel(w[c].cfg.hwaccel, w[c].hwaccel_available),
                            ![c].pc = "except"]
          /\ UNCHANGED status
    /\ UNCHANGED <<state, disk>>
    /\ WUnchanged

\* lines 124-130: subprocess.Popen starts the process or raises OSError
W_Launch(c) ==
    /\ w[c].pc = "launch"
    /\ \/ w' = [w EXCEPT ![c].proc = "running", ![c].fb = FALSE, ![c].pc = "online"]
       \/ w' = [w EXCEPT ![c].fb = FALSE, ![c].pc = "except"]
    /\ UNCHANGED <<state, disk, status>>
    /\ WUnchanged

\* line 131: camera_status.set(cam_name, "ONLINE")
W_Online(c) ==
    /\ w[c].pc = "online"
    /\ status' = CS_set(status, c, "ONLINE")
    /\ WStep(c, "monitor")
    /\ UNCHANGED <<state, disk>>
    /\ WUnchanged

\* lines 137-138: while not stop_event.is_set() and process.poll() is None: wait(0.5)
W_Monitor(c) ==
    /\ w[c].pc = "monitor"
    /\ w[c].stop \/ w[c].proc # "running"
    /\ WStep(c, "terminate")
    /\ UNCHANGED <<state, disk, status>>
    /\ WUnchanged

\* lines 140-145: if stop_event.is_set(): process.terminate(); the process
\* ends with a non-zero code or ignores the signal
W_Terminate(c) ==
    /\ w[c].pc = "terminate"
    /\ IF w[c].stop /\ w[c].proc = "running"
          THEN \/ w' = [w EXCEPT ![c].proc = "exited", ![c].returncode = 1,
                                 ![c].pc = "communicate"]
               \/ w' = [w EXCEPT ![c].deadline = now + CommunicateTimeout,
                                 ![c].pc = "communicate"]
          ELSE WStep(c, "communicate")
    /\ UNCHANGED <<state, disk, status>>
    /\ WUnchanged

\* line 147: process.communicate(timeout=10) returns the output of a process
\* that has ended, or raises TimeoutExpired
W_Communicate(c) ==
    /\ w[c].pc = "communicate"
    /\ w[c].proc = "exited" \/ now >= w[c].deadline
    /\ w' = [w EXCEPT ![c].deadline = 0,
                      ![c].pc = IF w[c].proc = "exited" THEN "classify" ELSE "except"]
    /\ UNCHANGED <<state, disk, status>>
    /\ WUnchanged

\* W_Classify without the stop test of line 149
W_Classify_NoStopTest(c) ==
    /\ w[c].pc = "classify"
    /\ WStep(c, IF w[c].returncode # 0 THEN "seterror" ELSE "finally")
    /\ UNCHANGED <<state, disk, status>>
    /\ WUnchanged

\* lines 149 and 173: a non-zero code without a stop request is an error;
\* a clean unsolicited exit is logged
W_Classify(c) ==
    /\ w[c].pc = "classify"
    /\ WStep(c, IF w[c].returncode # 0 /\ ~w[c].stop THEN "seterror" ELSE "finally")
    /\ UNCHANGED <<state, disk, status>>
    /\ WUnchanged

\* lines 155-157: _set_camera_status_error
W_SetError(c) ==
    /\ w[c].pc = "seterror"
    /\ status' = CS_set(status, c, "ERROR")
    /\ WStep(c, "fbcheck")
    /\ UNCHANGED <<state, disk>>
    /\ WUnchanged

\* lines 160-161: if use_hwaccel_this_run and is_cuda_error
W_FbCheck(c) ==
    /\ w[c].pc = "fbcheck"
    /\ WStep(c, IF w[c].use_hwaccel_this_run /\ w[c].cuda THEN "fb1" ELSE "finally")
    /\ UNCHANGED <<state, disk, status>>
    /\ WUnchanged

\* lines 167-168: thread_state["hwaccel_available"] = False
W_Fb1(c) ==
    /\ w[c].pc = "fb1"
    /\ state' = [state EXCEPT ![c].hwaccel_available = FALSE]
    /\ w' = [w EXCEPT ![c].hwaccel_available = FALSE, ![c].pc = "fb2"]
    /\ UNCHANGED <<disk, status>>
    /\ WUnchanged

\* lines 169-171: thread_state["fallback_timestamp"] = time.time(); continue
\* (the finally clause runs before the loop continues)
W_Fb2(c) ==
    /\ w[c].pc = "fb2"
    /\ state' = [state EXCEPT ![c].fallback_timestamp = now]
    /\ w' = [w EXCEPT ![c].fallback_timestamp = now, ![c].fb = TRUE, ![c].pc = "finally"]
    /\ UNCHANGED <<disk, status>>
    /\ WUnchanged

\* W_Except for an exception that no handler catches: the thread ends
W_Except_Uncaught(c) ==
    /\ w[c].pc = "except"
    /\ w' = [w EXCEPT ![c].fb = FALSE, ![c].pc = "done"]
    /\ UNCHANGED <<state, disk, status>>
    /\ WUnchanged

\* lines 183-205: both handlers set ERROR unless a stop was requested
W_Except(c) ==
    /\ w[c].pc = "except"
    /\ status' = IF w[c].stop THEN status ELSE CS_set(status, c, "ERROR")
    /\ w' = [w EXCEPT ![c].fb = FALSE, ![c].pc = "finally"]
    /\ UNCHANGED <<state, disk>>
    /\ WUnchanged

\* W_Finally without lines 207-209
W_Finally_NoKill(c) ==
    /\ w[c].pc = "finally"
    /\ WStep(c, "offline")
    /\ UNCHANGED <<state, disk, status>>
    /\ WUnchanged

\* lines 207-209: if process and process.poll() is None: kill(); wait()
W_Finally(c) ==
    /\ w[c].pc = "finally"
    /\ w' = [w EXCEPT ![c].proc = IF @ = "running" THEN "exited" ELSE @,
                      ![c].returncode = IF w[c].proc = "running" THEN 1 ELSE @,
                      ![c].pc = "offline"]
    /\ UNCHANGED <<state, disk, status>>
    /\ WUnchanged

\* W_Offline without the status write of line 211
W_Offline_Skipped(c) ==
    /\ w[c].pc = "offline"
    /\ WStep(c, "backoffchk")
    /\ UNCHANGED <<state, disk, status>>
    /\ WUnchanged

\* line 211: camera_status.set(cam_name, "OFFLINE")
W_Offline(c) ==
    /\ w[c].pc = "offline"
    /\ status' = CS_set(status, c, "OFFLINE")
    /\ WStep(c, "backoffchk")
    /\ UNCHANGED <<state, disk>>
    /\ WUnchanged

\* lines 213-216: if not stop_event.is_set(): "Restarting in {restart_delay}s..."
W_BackoffChk(c) ==
    /\ w[c].pc = "backoffchk"
    /\ IF w[c].stop
          THEN WStep(c, "loop")
          ELSE w' = [w EXCEPT ![c].deadline = now + w[c].cfg.restart_delay,
                              ![c].pc = "backoff"]
    /\ UNCHANGED <<state, disk, status>>
    /\ WUnchanged

\* lines 217-220: restart_delay * 2 waits of 0.5 s, left early on a stop request
W_Backoff(c) ==
    /\ w[c].pc = "backoff"
    /\ w[c].stop \/ now >= w[c].deadline
    /\ w' = [w EXCEPT ![c].deadline = 0, ![c].pc = "loop"]
    /\ UNCHANGED <<state, disk, status>>
    /\ WUnchanged

\* lines 222-225: camera_status.delete(cam_name); the thread ends
W_Exit(c) ==
    /\ w[c].pc = "exit"
    /\ status' = CS_delete(status, c)
    /\ WStep(c, "done")
    /\ UNCHANGED <<state, disk>>
    /\ WUnchanged

run_ffmpeg_for_camera(c) ==
    \/ W_Loop(c) \/ W_Read(c) \/ W_Restore1(c) \/ W_Restore2(c) \/ W_Connecting(c)
    \/ W_Probe(c) \/ W_Build(c) \/ W_Launch(c) \/ W_Online(c) \/ W_Monitor(c)
    \/ W_Terminate(c) \/ W_Communicate(c) \/ W_Classify(c) \/ W_SetError(c)
    \/ W_FbCheck(c) \/ W_Fb1(c) \/ W_Fb2(c) \/ W_Except(c) \/ W_Finally(c)
    \/ W_Offline(c) \/ W_BackoffChk(c) \/ W_Backoff(c) \/ W_Exit(c)

-----------------------------------------------------------------------------
(* Environment of a worker                                                  *)

\* the external process ends on its own
ProcExit(c) ==
    /\ w[c].proc = "running"
    /\ w[c].pc \in {"online", "monitor"}
    /\ \E rc \in {0, 1}, cu \in BOOLEAN :
          w' = [w EXCEPT ![c].proc = "exited", ![c].returncode = rc, ![c].cuda = cu]
    /\ UNCHANGED <<state, disk, status>>
    /\ WUnchanged

\* app.py:79, stop_event.set() by a caller of stop_camera_thread
SetStop(c) ==
    /\ w[c].pc # "none"
    /\ ~w[c].stop
    /\ w' = [w EXCEPT ![c].stop = TRUE, ![c].stop_time = now]
    /\ UNCHANGED <<state, disk, status>>
    /\ WUnchanged

\* app.py:34-36, save_state called by another thread of the application
SaveState ==
    /\ disk # save_state(state)
    /\ disk' = save_state(state)
    /\ UNCHANGED <<state, status, w>>
    /\ WUnchanged

\* a worker that is waiting: for its process, for the end of its backoff,
\* for ffprobe, for the output of a process it has terminated, or ended
Waiting(c) ==
    \/ w[c].pc \in {"none", "done"}
    \/ w[c].pc = "monitor" /\ ~w[c].stop /\ w[c].proc = "running"
    \/ w[c].pc = "backoff" /\ ~w[c].stop /\ now < w[c].deadline
    \/ w[c].pc = "probe" /\ now < w[c].deadline
    \/ w[c].pc = "communicate" /\ w[c].proc = "running" /\ now < w[c].deadline

TimedPcs == {"backoff", "probe", "communicate"}

\* the callers blocked in thread.join
Joining == {p \in Procs : pc[p] = "s_join" /\ ~JoinReturns(loc[p].cam)}

\* time passes while every worker waits and every caller is idle or blocked
\* in a join, up to the next end of a backoff, of a timeout or of a join
Tick(d) ==
    /\ d > 0
    /\ now + d <= MaxTime
    /\ \A c \in Workers : Waiting(c)
    /\ \E c \in Workers : w[c].pc # "done"
    /\ \A c \in Workers : w[c].pc \in TimedPcs => now + d <= w[c].deadline
    /\ \A p \in Procs : pc[p] \in IdlePcs \/ p \in Joining
    /\ \A p \in Joining : now + d <= w[loc[p].cam].stop_time + JoinTimeout
    /\ now' = now + d
    /\ UNCHANGED <<appVars, state, disk, status, w>>

TickSteps ==
    {TickStep} \cup {w[c].deadline - now : c \in {x \in Workers : w[x].pc \in TimedPcs}}
               \cup {w[loc[p].cam].stop_time + JoinTimeout - now : p \in Joining}

\* run_ffmpeg_for_camera(camera_config, logger, camera_status, stop_event,
\* thread_state) is called for each worker camera; thread_state is the record
\* of Application.state, already saved by start_camera_thread
InitW ==
    /\ configDoc = [kind |-> "ok", cameras |-> NoCameras]
    /\ running_threads = [c \in {} |-> NoEntry]
    /\ state \in [Workers -> {DefaultState, FallbackState(StartTime)}]
    /\ disk = save_state(state)
    /\ status = [c \in Cams |-> "ABSENT"]
    /\ threads = {}
    /\ config_lock = "free"
    /\ pc = [p \in Procs |-> "idle"]
    /\ loc = [p \in Procs |-> Loc0]
    /\ reconciled = FALSE
    /\ now = StartTime
    /\ build = NotBuilt
    /\ \E f \in [Workers -> BOOLEAN \X RestartDelays] :
          w = [c \in Cams |-> IF c \in Workers
                                 THEN [WIdle EXCEPT !.pc = "loop",
                                                    !.cfg = CameraConfig(c, f[c][1], f[c][2])]
                                 ELSE WIdle]

NextW ==
    \/ \E c \in Workers : run_ffmpeg_for_camera(c)
    \/ \E c \in Workers : ProcExit(c)
    \/ \E c \in Workers : SetStop(c)
    \/ SaveState
    \/ \E d \in TickSteps : Tick(d)

SpecW == InitW /\ [][NextW]_vars

\* SpecW with the scheduling the threads get: a worker thread that can take a
\* step takes one, and the clock advances while every worker waits
SpecWLive ==
    /\ InitW
    /\ [][NextW]_vars
    /\ \A c \in Workers : WF_vars(run_ffmpeg_for_camera(c))
    /\ WF_vars(\E d \in TickSteps : Tick(d))

-----------------------------------------------------------------------------
(* A managed camera whose worker runs (run_ffmpeg_for_camera called with    *)
(* its five declared parameters) and is restarted once through              *)
(* restart_camera_thread: stop_event.set(), join(timeout=15), unregister,   *)
(* start.  threads holds the camera once the second thread is started.      *)

InitRestart ==
    /\ configDoc = [kind |-> "ok", cameras |-> NoCameras]
    /\ \E h \in BOOLEAN, st \in {DefaultState, FallbackState(StartTime)} :
          /\ running_threads = [c \in Workers |->
                                   [stop_event |-> FALSE,
                                    config |-> CameraConfig(c, h, DefaultRestartDelay),
                                    state |-> st]]
          /\ state = [c \in Workers |-> st]
          /\ w = [c \in Cams |-> IF c \in Workers
                                    THEN [WIdle EXCEPT
                                             !.pc = "loop",
                                             !.cfg = CameraConfig(c, h, DefaultRestartDelay)]
                                    ELSE WIdle]
    /\ disk = save_state(state)
    /\ status = [c \in Cams |-> "ABSENT"]
    /\ threads = {}
    /\ config_lock = "free"
    /\ pc = [p \in Procs |-> "idle"]
    /\ loc = [p \in Procs |-> Loc0]
    /\ reconciled = FALSE
    /\ now = StartTime
    /\ build = NotBuilt

NextRestart ==
    \/ \E p \in Apis, c \in Workers : threads = {} /\ CallRestart(p, c)
    \/ \E p \in Apis : restart_camera_thread(p)
    \/ \E p \in Apis : S_join(p)
    \/ \E p \in Apis : start_camera_thread(p)
    \/ \E c \in Workers : run_ffmpeg_for_camera(c)
    \/ \E c \in Workers : ProcExit(c)
    \/ \E d \in TickSteps : Tick(d)

SpecRestart == InitRestart /\ [][NextRestart]_vars

\* a worker thread that has not ended
Live(c) == w[c].pc \notin {"none", "done"}

\* C24: at most one thread of a camera has not ended, and a thread that has
\* not ended is registered in running_threads (a thread just started is
\* registered by the start_camera_thread that started it).
C24_OneSupervisor ==
    \A c \in Cams :
       /\ ~(Live(c) /\ c \in threads)
       /\ Live(c) => c \in DOMAIN running_threads
       /\ c \in threads =>
             \/ c \in DOMAIN running_threads
             \/ \E p \in Procs : pc[p] = "t_reg" /\ loc[p].cam = c

-----------------------------------------------------------------------------
(* Properties of the worker, checked under SpecW                            *)

Consistent(s) == (s.fallback_timestamp # None) <=> ~s.hwaccel_available

\* C5: once a worker has recorded a fallback, its state is
\* hwaccel_available = False with a fallback timestamp, and the iteration that
\* follows compiles and launches its command with acceleration disabled.
C5_FallbackTransition ==
    \A c \in Workers :
       /\ (w[c].fb /\ w[c].pc = "finally") =>
             (~state[c].hwaccel_available /\ state[c].fallback_timestamp # None)
       /\ (w[c].fb /\ w[c].pc = "launch") => ~w[c].use_hwaccel_this_run

\* C6: right after a worker has made a fallback or a recovery transition
\* (before its next status write), the durable document holds the same
\* hwaccel_available for that camera as the state in memory.
C6_DurableSync ==
    \A c \in Workers :
       w[c].pc \in {"connecting", "finally"} =>
          /\ c \in DOMAIN disk
          /\ disk[c].hwaccel_available = state[c].hwaccel_available

\* C7: between the record of a fallback and the launch that follows it, the
\* worker neither sets OFFLINE nor waits the restart delay.
C7_ImmediateRetry ==
    \A c \in Workers :
       w[c].fb => w[c].pc \notin {"offline", "backoffchk", "backoff"}

\* C8: at the start of an iteration the fallback is cleared exactly when a
\* fallback timestamp is recorded and more than fallback_retry_seconds have
\* passed since; the state is then hwaccel_available = True with no timestamp
\* before the effective flag is computed; otherwise the state is left as it
\* was; the effective flag is the preference AND the availability the state
\* then holds, so an iteration under an active fallback runs without
\* acceleration.
C8_Reprobe ==
    /\ [](\A c \in Workers :
             w[c].pc \in {"connecting", "probe", "build"} =>
                /\ w[c].hwaccel_available = state[c].hwaccel_available
                /\ Consistent(state[c]))
    /\ [][\A c \in Workers :
            /\ (w[c].pc = "read" /\ w'[c].pc # "read") =>
                  IF /\ state[c].fallback_timestamp # None
                     /\ now - state[c].fallback_timestamp > fallback_retry_seconds
                     THEN w'[c].pc = "restore1"
                     ELSE w'[c].pc = "connecting" /\ state'[c] = state[c]
            /\ (w[c].pc = "restore2" /\ w'[c].pc # "restore2") =>
                  w'[c].pc = "connecting" /\ state'[c] = DefaultState
            /\ (w[c].pc = "build" /\ w'[c].pc = "launch") =>
                  /\ w'[c].use_hwaccel_this_run =
                        (w[c].cfg.hwaccel /\ state[c].hwaccel_available)
                  /\ state[c].fallback_timestamp # None => ~w'[c].use_hwaccel_this_run]_vars

\* a fallback was recorded, the interval passed during the backoff, and the
\* following iteration has restored the availability
C8_Witness ==
    \E c \in Workers :
       /\ w[c].fb
       /\ w[c].pc = "connecting"
       /\ state[c] = DefaultState

\* an iteration under a fallback whose interval has not passed runs without
\* acceleration although the configuration prefers it
C8_WitnessKept ==
    \E c \in Workers :
       /\ w[c].pc = "launch"
       /\ w[c].cfg.hwaccel
       /\ ~w[c].use_hwaccel_this_run
       /\ state[c] = FallbackState(StartTime)

\* C9: every persistent state record, in memory and in the durable document,
\* has a fallback timestamp exactly when hwaccel_available is False.
C9_TimestampIffFallback ==
    /\ \A c \in DOMAIN state : Consistent(state[c])
    /\ \A c \in DOMAIN disk : Consistent(disk[c])

\* the monitoring poll granularity plus the kill-wait timeout
StopBound == PollSeconds + CommunicateTimeout

\* C16: a worker whose stop was requested has reached its terminal cleanup
\* (status entry removed, loop left) once more than StopBound seconds have
\* passed since the request, wherever in its loop the request found it.
C16_StopResponsive ==
    \A c \in Workers :
       (w[c].stop /\ w[c].pc # "done") => now - w[c].stop_time <= StopBound

\* C15: with a stop requested, the worker's judgement of the exit code (line
\* 149) goes on without an ERROR write, whatever the code, and its exception
\* handlers (communicate timeout included) leave the status as it is.
C15_StopSuppressesError ==
    [][\A c \in Workers :
         /\ (w[c].pc = "classify" /\ w[c].stop /\ w'[c].pc # "classify") =>
               /\ w'[c].pc = "finally"
               /\ status'[c] = status[c]
         /\ (w[c].pc = "except" /\ w[c].stop /\ w'[c].pc # "except") =>
               status'[c] = status[c]
         /\ (w[c].pc = "seterror" /\ w'[c].pc # "seterror") =>
               w[c].proc = "exited" /\ w[c].returncode # 0]_vars

\* a stop was requested, the process was running and ended with a non-zero
\* code, and the worker has passed its judgement with the status still ONLINE
C15_Witness ==
    \E c \in Workers :
       /\ w[c].stop
       /\ w[c].pc = "finally"
       /\ w[c].proc = "exited"
       /\ w[c].returncode = 1
       /\ status[c] = "ONLINE"

\* C17 as stated: a worker that leaves its loop on a stop request has set the
\* status OFFLINE before it removes its entry, and after the removal it writes
\* no status and begins no iteration.
C17_StopTerminal_AsStated ==
    [][\A c \in Workers :
         /\ (w[c].pc = "exit" /\ w'[c].pc = "done") =>
               /\ status[c] = "OFFLINE"
               /\ status'[c] = "ABSENT"
         /\ w[c].pc = "done" => (w'[c] = w[c] /\ status'[c] = status[c])]_vars

\* C17: a worker leaves its loop only with a stop requested; if it has begun
\* an iteration its status is then OFFLINE, and if it was stopped before its
\* first iteration it has written no status; it then removes its entry, and
\* after the removal it writes no status and begins no iteration.
C17_StopTerminal ==
    [][\A c \in Workers :
         /\ (w[c].pc = "loop" /\ w'[c].pc = "exit") => w[c].stop
         /\ (w[c].pc = "exit" /\ w'[c].pc = "done") =>
               /\ status[c] = IF w[c].iter = 0 THEN "ABSENT" ELSE "OFFLINE"
               /\ status'[c] = "ABSENT"
         /\ w[c].pc = "done" => (w'[c] = w[c] /\ status'[c] = status[c])]_vars

\* a worker stopped while its process ran has set OFFLINE, removed its entry
\* and ended
C17_Witness ==
    \E c \in Workers :
       /\ w[c].pc = "done"
       /\ w[c].stop
       /\ w[c].iter > 0
       /\ w[c].proc = "exited"
       /\ status[c] = "ABSENT"

\* the model's horizon: no iteration is begun after MaxIter, and the clock
\* stops at MaxTime
Horizon(c) ==
    \/ w[c].pc = "read" /\ w[c].iter >= MaxIter
    \/ w[c].pc = "backoff" /\ w[c].deadline > MaxTime

\* C19: a worker leaves its loop only with a stop requested; a step of a
\* worker changes nothing of another camera; and, with no stop requested, the
\* end of an iteration (the finally block, reached from every exit, failure
\* and exception) is followed by an iteration that sets CONNECTING and goes
\* on to the launch sequence, up to the horizon.
C19_KeepTrying ==
    /\ [](\A c \in Workers : w[c].pc \in {"exit", "done"} => w[c].stop)
    /\ [][\A c \in Workers :
            w'[c] # w[c] =>
               \A o \in Cams \ {c} :
                  /\ w'[o] = w[o]
                  /\ status'[o] = status[o]
                  /\ o \in DOMAIN state => state'[o] = state[o]]_vars
    /\ \A c \in Workers :
          (w[c].pc = "finally" /\ ~w[c].stop) ~>
             \/ w[c].stop
             \/ w[c].pc = "probe" /\ status[c] = "CONNECTING"
             \/ Horizon(c)

\* with no stop requested, a second iteration has set CONNECTING after the
\* first one ended
C19_Witness ==
    \E c \in Workers :
       /\ ~w[c].stop
       /\ w[c].iter = 2
       /\ w[c].pc = "probe"
       /\ w[c].proc = "none"
       /\ status[c] = "CONNECTING"


\* C23: the status values a worker writes follow CONNECTING -> ONLINE ->
\* {ERROR | OFFLINE} -> CONNECTING: an iteration writes CONNECTING before any
\* other status; ONLINE is written only on CONNECTING and with the process of
\* this iteration launched; ERROR is written only on the CONNECTING or ONLINE
\* of this iteration, OFFLINE only on its CONNECTING, ONLINE or ERROR; the
\* entry is removed only as the worker ends.
C23_StatusOrder ==
    [][\A c \in Workers :
         /\ (w[c].pc = "connecting" /\ w'[c].pc # "connecting") => status'[c] = "CONNECTING"
         /\ w'[c].iter # w[c].iter => status'[c] \in {"ABSENT", "OFFLINE", "ERROR"}
         /\ status'[c] # status[c] =>
               CASE status'[c] = "CONNECTING" -> status[c] \in {"ABSENT", "OFFLINE", "ERROR"}
                 [] status'[c] = "ONLINE" -> status[c] = "CONNECTING" /\ w[c].proc # "none"
                 [] status'[c] = "ERROR" -> status[c] \in {"CONNECTING", "ONLINE"}
                 [] status'[c] = "OFFLINE" -> status[c] \in {"CONNECTING", "ONLINE", "ERROR"}
                 [] status'[c] = "ABSENT" -> w'[c].pc = "done"
                 [] OTHER -> FALSE]_vars

\* a worker in its second iteration has written CONNECTING, launched its
\* process and written ONLINE
C23_Witness ==
    \E c \in Workers :
       /\ w[c].iter = 2
       /\ w[c].pc = "monitor"
       /\ w[c].proc = "running"
       /\ status[c] = "ONLINE"

\* C25: a worker whose stop signal is set launches no external process and
\* does not set its status to ONLINE.
C25_NoLaunchAfterStop ==
    [][\A c \in Workers :
         w[c].stop =>
            /\ ~(w[c].proc # "running" /\ w'[c].proc = "running")
            /\ ~(status[c] # "ONLINE" /\ status'[c] = "ONLINE")]_vars

\* the points of an iteration before its launch, and those after its
\* finally block up to the next `process = None`
BeforeLaunch == {"restore1", "restore2", "connecting", "probe", "build", "launch"}

AfterFinally == {"offline", "backoffchk", "backoff", "loop", "exit", "done", "read"}

\* C26: a worker launches a process only while it has none, and after the
\* finally block of an iteration, whichever way the iteration ended, the
\* process launched in it is not running: not when the next iteration lets
\* go of it, and not when the loop and the thread end.
C26_NoOrphan ==
    \A c \in Workers :
       /\ w[c].pc \in BeforeLaunch => w[c].proc = "none"
       /\ w[c].pc \in AfterFinally => w[c].proc # "running"

\* a stopped worker whose process ignored terminate() until communicate
\* timed out is past its finally block, its process ended
C26_Witness ==
    \E c \in Workers :
       /\ w[c].pc = "offline"
       /\ w[c].stop
       /\ w[c].proc = "exited"
       /\ status[c] = "ONLINE"
       /\ now >= w[c].stop_time + CommunicateTimeout
       /\ now < w[c].stop_time + ProbeTimeout

-----------------------------------------------------------------------------
(* ffmpeg_builder.py: the command compiled for one camera.  An argument is  *)
(* a string, a command the sequence of its arguments, built as the code     *)
(* builds it.  A camera configuration is a record of the values of its      *)
(* keys together with the set `absent` of the optional keys the document    *)
(* leaves out; the keys of the nested "processing" mapping stand beside    *)
(* those of the camera, those of its "split" mapping as split_enabled and  *)
(* split_type.                                                             *)

OptionalKeys == {"rtsp_path", "hwaccel", "input_codec", "output_codec", "bitrate",
                 "maxrate", "keyframe_interval", "split_enabled", "split_type"}

\* dict.get(key, default)
Get(d, key, default) == IF key \in d.absent THEN default ELSE d[key]

SPLIT_TYPE_VERTICAL == "vertical"

SPLIT_TYPE_HORIZONTAL == "horizontal"

\* a rate as the document writes it: digits, an optional fraction, a suffix
Rate(num, frac, unit) == [num |-> num, frac |-> frac, unit |-> unit]

RateText(r) == ToString(r.num) \o r.frac \o r.unit

Rates == {Rate(4, "", "M"), Rate(2, ".5", "m"), Rate(800, "", "k"),
          Rate(4000, "", ""), Rate(2, ".5", "")}

\* str.lower() of the suffix
Lower(u) == IF u = "M" THEN "m" ELSE IF u = "K" THEN "k" ELSE u

\* ffmpeg_builder.py:5-11; int(float(x)) drops the fraction, int(x) of a text
\* with a fraction raises ValueError
_get_bitrate_in_k(rate) ==
    IF Lower(rate.unit) = "m" THEN [kind |-> "ok", k |-> rate.num * 1000]
    ELSE IF Lower(rate.unit) = "k" THEN [kind |-> "ok", k |-> rate.num]
    ELSE IF rate.unit = "" /\ rate.frac = "" THEN [kind |-> "ok", k |-> rate.num]
    ELSE [kind |-> "raised", exc |-> "ValueError"]

\* the rtsp paths of the documents, and those that carry "user=" and
\* "password=" (the two substring tests of ffmpeg_builder.py:19)
Passwords == {"pw", "p_w"}

CredentialPath(password) == "/live?user=admin&password=" \o password \o "&channel=1"

PathsWithCredentials == {CredentialPath(password) : password \in Passwords}

RtspPaths == {"/stream1"} \cup PathsWithCredentials

\* ffmpeg_builder.py:14-23
get_input_url(cam_info) ==
    LET rtsp_path == Get(cam_info, "rtsp_path", "/stream1")
    IN  IF rtsp_path \in PathsWithCredentials
           THEN "rtsp://" \o cam_info.ip \o ":554" \o rtsp_path
           ELSE "rtsp://" \o cam_info.user \o ":" \o cam_info.pass \o "@"
                    \o cam_info.ip \o ":554" \o rtsp_path

\* ffmpeg_builder.py:33-50, the decoder and the encoder
input_params(input_codec, hwaccel_enabled) ==
    IF hwaccel_enabled
       THEN IF input_codec = "h265" THEN <<"-c:v", "hevc_cuvid">>
                                    ELSE <<"-c:v", "h264_cuvid">>
       ELSE <<>>

output_params(output_codec, hwaccel_enabled) ==
    IF output_codec = "copy" THEN <<"-c:v", "copy">>
    ELSE IF hwaccel_enabled
            THEN IF output_codec = "h265"
                    THEN <<"-c:v", "hevc_nvenc", "-preset", "p5">>
                    ELSE <<"-c:v", "h264_nvenc", "-preset", "p5">>
            ELSE <<"-c:v", "libx264">>

\* ffmpeg_builder.py:26-69
get_codec_parameters(processing_config, hwaccel_enabled) ==
    LET input_codec == Get(processing_config, "input_codec", "h264")
        output_codec == Get(processing_config, "output_codec", "copy")
        bitrate == Get(processing_config, "bitrate", "2M")
        maxrate == Get(processing_config, "maxrate", Rate(4, "", "M"))
        maxrate_k == _get_bitrate_in_k(maxrate)
        \* .get("keyframe_interval") gives None, which is as false as 0
        keyframe_interval == Get(processing_config, "keyframe_interval", 0)
    IN  IF output_codec = "copy"
           THEN [kind |-> "ok",
                 input_params |-> input_params(input_codec, hwaccel_enabled),
                 output_params |-> output_params(output_codec, hwaccel_enabled),
                 output_option_params |-> <<>>,
                 details |-> ("codec" :> output_codec)]
        ELSE IF maxrate_k.kind = "raised" THEN maxrate_k
        ELSE [kind |-> "ok",
              input_params |-> input_params(input_codec, hwaccel_enabled),
              output_params |-> output_params(output_codec, hwaccel_enabled),
              output_option_params |->
                  <<"-b:v", bitrate, "-maxrate", RateText(maxrate),
                    "-bufsize", ToString(maxrate_k.k * 2) \o "k">>
                  \o (IF keyframe_interval # 0
                         THEN <<"-g", ToString(keyframe_interval)>> ELSE <<>>),
              details |-> ("codec" :> output_codec) @@ ("bitrate" :> bitrate)]

MediaMtx == "rtsp://mediamtx:8554/"

\* ffmpeg_builder.py:125-139
filter_graph(split_type, hwaccel_enabled) ==
    LET crop1 == IF split_type = SPLIT_TYPE_HORIZONTAL
                    THEN "crop=w=iw:h=ih/2:x=0:y=0" ELSE "crop=w=iw/2:h=ih:x=0:y=0"
        crop2 == IF split_type = SPLIT_TYPE_HORIZONTAL
                    THEN "crop=w=iw:h=ih/2:x=0:y=in_h/2"
                    ELSE "crop=w=iw/2:h=ih:x=in_w/2:y=0"
    IN  (IF hwaccel_enabled THEN "[0:v]hwdownload,format=nv12,split=2[split1][split2];"
                            ELSE "[0:v]split=2[split1][split2];")
        \o "[split1]" \o crop1 \o "[part1];[split2]" \o crop2 \o "[part2]"

\* build_ffmpeg_command with audio mapped into both legs of a split
OutputArgs_AudioOnBoth(cam_name, enabled, split_type, hwaccel_enabled, output_codec_params, output_option_params) ==
    IF enabled
       THEN <<"-filter_complex", filter_graph(split_type, hwaccel_enabled)>>
            \o <<"-map", "[part1]", "-map", "0:a?", "-c:a", "copy">>
            \o output_codec_params \o output_option_params
            \o <<"-f", "rtsp", "-rtsp_transport", "tcp", MediaMtx \o cam_name \o "_part1">>
            \o <<"-map", "[part2]", "-map", "0:a?", "-c:a", "copy">>
            \o output_codec_params \o output_option_params
            \o <<"-f", "rtsp", "-rtsp_transport", "tcp", MediaMtx \o cam_name \o "_part2">>
       ELSE <<"-map", "0:v", "-map", "0:a?", "-c:a", "copy">>
            \o output_codec_params \o output_option_params
            \o <<"-f", "rtsp", "-rtsp_transport", "tcp", MediaMtx \o cam_name>>

\* ffmpeg_builder.py:123-170, the arguments after the input
OutputArgs(cam_name, enabled, split_type, hwaccel_enabled, output_codec_params, output_option_params) ==
    IF enabled
       THEN <<"-filter_complex", filter_graph(split_type, hwaccel_enabled)>>
            \o <<"-map", "[part1]", "-an">>
            \o output_codec_params \o output_option_params
            \o <<"-f", "rtsp", "-rtsp_transport", "tcp", MediaMtx \o cam_name \o "_part1">>
            \o <<"-map", "[part2]", "-map", "0:a?", "-c:a", "copy">>
            \o output_codec_params \o output_option_params
            \o <<"-f", "rtsp", "-rtsp_transport", "tcp", MediaMtx \o cam_name \o "_part2">>
       ELSE <<"-map", "0:v", "-map", "0:a?", "-c:a", "copy">>
            \o output_codec_params \o output_option_params
            \o <<"-f", "rtsp", "-rtsp_transport", "tcp", MediaMtx \o cam_name>>

\* ffmpeg_builder.py:72-172
build_ffmpeg_command(cam_info) ==
    LET cam_name == cam_info.name
        input_url == get_input_url(cam_info)
        hwaccel_enabled == Get(cam_info, "hwaccel", TRUE)
        codec == get_codec_parameters(cam_info, hwaccel_enabled)
        enabled == Get(cam_info, "split_enabled", FALSE)
        split_type == Get(cam_info, "split_type", SPLIT_TYPE_VERTICAL)
    IN  IF codec.kind = "raised" THEN codec
        ELSE [kind |-> "ok",
              cmd |-> <<"ffmpeg", "-hide_banner", "-loglevel", "error">>
                      \o (IF hwaccel_enabled
                             THEN <<"-hwaccel", "cuda", "-hwaccel_output_format", "cuda">>
                             ELSE <<>>)
                      \o codec.input_params
                      \o <<"-fflags", "nobuffer", "-flags", "low_delay",
                           "-analyzeduration", "500000", "-probesize", "500000",
                           "-timeout", "15000000", "-rtsp_transport", "tcp",
                           "-i", input_url>>
                      \o OutputArgs(cam_name, enabled, split_type, hwaccel_enabled,
                                    codec.output_params, codec.output_option_params),
              \* details.update(codec_details): the codec's entries prevail
              details |-> codec.details
                          @@ ("camera" :> cam_name)
                          @@ ("splitting" :> IF enabled THEN "Enabled" ELSE "Disabled")
                          @@ ("audio" :> IF ~enabled THEN "copy" ELSE "part2 only")]

\* the values a key has where the document leaves it out (never read)
Filler == [rtsp_path |-> "/stream1", hwaccel |-> TRUE, input_codec |-> "h264",
           output_codec |-> "copy", bitrate |-> "2M", maxrate |-> Rate(4, "", "M"),
           keyframe_interval |-> 0, split_enabled |-> FALSE,
           split_type |-> SPLIT_TYPE_VERTICAL]

\* the sets of keys a document leaves out: none, one of them, all of them
AbsentSets == {{}} \cup {{k} : k \in OptionalKeys} \cup {OptionalKeys}

\* the camera mappings of the documents the builder is applied to
BuilderConfigs ==
    {[k \in DOMAIN r \cup {"ip", "user"} |->
         IF k = "ip" THEN "10.0.0.7"
         ELSE IF k = "user" THEN "admin"
         ELSE IF k = "pass"
                 THEN IF Get(r, "rtsp_path", "/stream1") \in PathsWithCredentials
                         THEN "pw" ELSE r.pass
         ELSE IF k \in r.absent THEN Filler[k]
         ELSE r[k]] :
     r \in [name : Cams, absent : AbsentSets, rtsp_path : RtspPaths, pass : Passwords,
            hwaccel : BOOLEAN, input_codec : {"h264", "h265"},
            output_codec : {"copy", "h264", "h265"}, bitrate : {"2M"},
            maxrate : Rates, keyframe_interval : {0, 50},
            split_enabled : BOOLEAN,
            split_type : {SPLIT_TYPE_VERTICAL, SPLIT_TYPE_HORIZONTAL}]}

-----------------------------------------------------------------------------
(* _get_sanitized_command (process_manager.py:9-18): the two re.sub calls   *)
(* applied to each argument, computed on the characters of the argument.    *)

StartsWithAt(s, i, literal) ==
    /\ i + Len(literal) - 1 <= Len(s)
    /\ SubSeq(s, i, i + Len(literal) - 1) = literal

\* where a greedy run [^...]+ begun at i ends: the first position at or
\* after i whose character is one of stop, else the position after the text
RunEnd(s, i, stop) ==
    LET S == {j \in i..Len(s) : SubSeq(s, j, j) \in stop}
    IN  IF S = {} THEN Len(s) + 1 ELSE CHOOSE j \in S : \A k \in S : j <= k

\* (rtsp://[^:]+:)([^@]+)(@) matches at i: the first run ends at the first
\* ":" and the second at the first "@" after it, each run with a character
UserinfoMatch(s, i) ==
    /\ StartsWithAt(s, i, "rtsp://")
    /\ LET colon == RunEnd(s, i + 7, {":"})
           at == RunEnd(s, colon + 1, {"@"})
       IN  /\ colon > i + 7
           /\ colon <= Len(s)
           /\ at > colon + 1
           /\ at <= Len(s)

\* line 14: re.sub(r"(rtsp://[^:]+:)([^@]+)(@)", r"\1***\3", part), from pos on
RECURSIVE SubUserinfo(_, _)
SubUserinfo(s, pos) ==
    LET M == {i \in pos..Len(s) : UserinfoMatch(s, i)}
    IN  IF M = {} THEN SubSeq(s, pos, Len(s))
        ELSE LET i == CHOOSE j \in M : \A k \in M : j <= k
                 colon == RunEnd(s, i + 7, {":"})
                 at == RunEnd(s, colon + 1, {"@"})
             IN  SubSeq(s, pos, colon) \o "***" \o "@" \o SubUserinfo(s, at + 1)

\* the characters that end the run of (password=)[^&_]+
PasswordStop == {"&", "_"}

\* (password=)[^&_]+ matches at i
PasswordMatch(s, i) ==
    /\ StartsWithAt(s, i, "password=")
    /\ RunEnd(s, i + 9, PasswordStop) > i + 9

\* line 16: re.sub(r"(password=)[^&_]+", r"\1***", part), from pos on
RECURSIVE SubPassword(_, _)
SubPassword(s, pos) ==
    LET M == {i \in pos..Len(s) : PasswordMatch(s, i)}
    IN  IF M = {} THEN SubSeq(s, pos, Len(s))
        ELSE LET i == CHOOSE j \in M : \A k \in M : j <= k
             IN  SubSeq(s, pos, i + 8) \o "***"
                     \o SubPassword(s, RunEnd(s, i + 9, PasswordStop))

\* lines 14 and 16 applied to one argument
Sanitized(part) == SubPassword(SubUserinfo(part, 1), 1)

\* process_manager.py:9-18
_get_sanitized_command(command) == [i \in 1..Len(command) |-> Sanitized(command[i])]

\* " ".join(parts)
RECURSIVE Join(_)
Join(parts) ==
    IF parts = <<>> THEN ""
    ELSE IF Len(parts) = 1 THEN parts[1]
    ELSE parts[1] \o " " \o Join(Tail(parts))

\* build_ffmpeg_command(camera_config) applied to the camera of build.input
Build ==
    /\ build.called = "none"
    /\ build' = [build EXCEPT !.called = "build_ffmpeg_command",
                              !.result = build_ffmpeg_command(build.input)]
    /\ UNCHANGED <<state, disk, status, w, now>>
    /\ UNCHANGED <<configDoc, running_threads, threads, config_lock, pc, loc, reconciled>>

\* what get_stream_resolution returned (process_manager.py:91)
Resolution == "1920x1080"

\* process_manager.py:62 and 94-106, the compile step of an iteration of
\* run_ffmpeg_for_camera whose thread_state holds build.hwaccel_available:
\* the copy of the configuration with the effective flag, the builder, and
\* the resolution and hwaccel entries of the details
Compile ==
    /\ build.called = "none"
    /\ LET hwaccel_preferred == Get(build.input, "hwaccel", TRUE)
           use_hwaccel_this_run == UseHwaccel(hwaccel_preferred, build.hwaccel_available)
           temp_camera_config == [build.input EXCEPT !.hwaccel = use_hwaccel_this_run,
                                                     !.absent = @ \ {"hwaccel"}]
           built == build_ffmpeg_command(temp_camera_config)
       IN  build' = [build EXCEPT
                        !.called = "run_ffmpeg_for_camera",
                        !.use_hwaccel_this_run = use_hwaccel_this_run,
                        !.result =
                            IF built.kind = "raised" THEN built
                            ELSE [built EXCEPT !.details =
                                     ("resolution" :> Resolution)
                                     @@ ("hwaccel" :> IF hwaccel_preferred
                                                         THEN IF use_hwaccel_this_run
                                                                 THEN "Enabled"
                                                                 ELSE "CPU Fallback"
                                                         ELSE "Disabled")
                                     @@ @]]
    /\ UNCHANGED <<state, disk, status, w, now>>
    /\ UNCHANGED <<configDoc, running_threads, threads, config_lock, pc, loc, reconciled>>

\* process_manager.py:121-122, the command line written to the log
Log ==
    /\ build.called = "run_ffmpeg_for_camera"
    /\ build.result.kind = "ok"
    /\ ~build.logged
    /\ build' = [build EXCEPT
                     !.logged = TRUE,
                     !.sanitized_command_str = Join(_get_sanitized_command(build.result.cmd))]
    /\ UNCHANGED <<state, disk, status, w, now>>
    /\ UNCHANGED <<configDoc, running_threads, threads, config_lock, pc, loc, reconciled>>

InitB ==
    /\ configDoc = [kind |-> "ok", cameras |-> NoCameras]
    /\ running_threads = [c \in {} |-> NoEntry]
    /\ state = [c \in {} |-> DefaultState]
    /\ disk = save_state(state)
    /\ status = [c \in Cams |-> "ABSENT"]
    /\ threads = {}
    /\ config_lock = "free"
    /\ pc = [p \in Procs |-> "idle"]
    /\ loc = [p \in Procs |-> Loc0]
    /\ reconciled = FALSE
    /\ w = [c \in Cams |-> WIdle]
    /\ now = StartTime
    /\ build \in {[NotBuilt EXCEPT !.input = c, !.hwaccel_available = a] :
                      c \in BuilderConfigs, a \in BOOLEAN}

NextB == Build \/ Compile \/ Log

SpecB == InitB /\ [][NextB]_vars

-----------------------------------------------------------------------------
(* Properties of the builder, checked under SpecB                           *)

\* ffmpeg reads its arguments as options, each followed by its value or by
\* nothing, and output urls; the options before an output url are those of
\* that output.
FlagOptions == {"-an"}

ValueOptions == {"-map", "-c:v", "-c:a", "-preset", "-b:v", "-maxrate", "-bufsize",
                 "-g", "-f", "-rtsp_transport", "-filter_complex"}

RECURSIVE ParseLegs(_, _, _)
ParseLegs(args, options, legs) ==
    IF args = <<>> THEN legs
    ELSE IF Head(args) \in FlagOptions
            THEN ParseLegs(Tail(args), Append(options, <<Head(args)>>), legs)
    ELSE IF Head(args) \in ValueOptions
            THEN ParseLegs(Tail(Tail(args)), Append(options, <<args[1], args[2]>>), legs)
    ELSE ParseLegs(Tail(args), <<>>, Append(legs, [options |-> options, url |-> Head(args)]))

\* the output legs of a command: what follows the input "-i <url>"
OutputLegs(cmd) ==
    LET i == CHOOSE j \in 1..Len(cmd) : cmd[j] = "-i"
    IN  ParseLegs(SubSeq(cmd, i + 2, Len(cmd)), <<>>, <<>>)

Has(leg, option) == \E j \in 1..Len(leg.options) : leg.options[j] = option

CodecOptionNames == {"-c:v", "-preset", "-b:v", "-maxrate", "-bufsize", "-g"}

IsCodecOption(option) == option[1] \in CodecOptionNames

CodecOptions(leg) == SelectSeq(leg.options, IsCodecOption)

\* C20: a command compiled with split enabled has exactly two output legs,
\* published as <name>_part1 and <name>_part2, with the same codec and
\* bitrate options, the first muted (-an) and without an audio map, the
\* second mapping the optional audio; a command compiled with split disabled
\* has exactly one leg, published as <name>, mapping video and the optional
\* audio.
C20_SplitLegs ==
    build.result.kind = "ok" =>
        LET cam_info == build.input
            legs == OutputLegs(build.result.cmd)
        IN  IF Get(cam_info, "split_enabled", FALSE)
               THEN /\ Len(legs) = 2
                    /\ legs[1].url = MediaMtx \o cam_info.name \o "_part1"
                    /\ legs[2].url = MediaMtx \o cam_info.name \o "_part2"
                    /\ CodecOptions(legs[1]) = CodecOptions(legs[2])
                    /\ CodecOptions(legs[1]) # <<>>
                    /\ Has(legs[1], <<"-an">>)
                    /\ ~Has(legs[1], <<"-map", "0:a?">>)
                    /\ Has(legs[2], <<"-map", "0:a?">>)
                    /\ ~Has(legs[2], <<"-an">>)
               ELSE /\ Len(legs) = 1
                    /\ legs[1].url = MediaMtx \o cam_info.name
                    /\ Has(legs[1], <<"-map", "0:v">>)
                    /\ Has(legs[1], <<"-map", "0:a?">>)
                    /\ ~Has(legs[1], <<"-an">>)

\* C20: a command was compiled with split enabled and an encoder with
\* bitrate options, and has two legs
C20_Witness ==
    /\ build.result.kind = "ok"
    /\ Get(build.input, "split_enabled", FALSE)
    /\ Get(build.input, "output_codec", "copy") # "copy"
    /\ Len(OutputLegs(build.result.cmd)) = 2
    /\ Has(OutputLegs(build.result.cmd)[2], <<"-maxrate", "4M">>)

\* what ffmpeg reads before "-i": the options of the input
InputArgs(cmd) == SubSeq(cmd, 1, (CHOOSE j \in 1..Len(cmd) : cmd[j] = "-i") - 1)

HardwareDecoders == {"h264_cuvid", "hevc_cuvid"}

HardwareEncoders == {"h264_nvenc", "hevc_nvenc"}

SoftwareEncoders == {"libx264", "libx265"}

\* "-c:v <decoder>" among the options of the input
HasHardwareDecoder(cmd) ==
    \E j \in 1..(Len(InputArgs(cmd)) - 1) :
        InputArgs(cmd)[j] = "-c:v" /\ InputArgs(cmd)[j + 1] \in HardwareDecoders

\* the encoders of a leg: the values of its "-c:v" options
Encoders(leg) == {leg.options[j][2] : j \in {i \in 1..Len(leg.options) : leg.options[i][1] = "-c:v"}}

\* C21: the compile step of an iteration uses the flag (preference and
\* availability); the command it compiles has a hardware decoder exactly
\* when the flag is true; every output leg has exactly one encoder, which is
\* copy when the output codec is copy, else a hardware encoder when the flag
\* is true and a software encoder when it is false.
C21_CodecSelection ==
    build.called = "run_ffmpeg_for_camera" =>
        LET effective == Get(build.input, "hwaccel", TRUE) /\ build.hwaccel_available
            output_codec == Get(build.input, "output_codec", "copy")
        IN  /\ build.use_hwaccel_this_run = effective
            /\ build.result.kind = "ok" =>
                  /\ HasHardwareDecoder(build.result.cmd) <=> effective
                  /\ \A n \in 1..Len(OutputLegs(build.result.cmd)) :
                        LET encoders == Encoders(OutputLegs(build.result.cmd)[n])
                        IN  /\ Cardinality(encoders) = 1
                            /\ output_codec = "copy" => encoders = {"copy"}
                            /\ (output_codec # "copy" /\ effective)
                                   => encoders \subseteq HardwareEncoders
                            /\ (output_codec # "copy" /\ ~effective)
                                   => encoders \subseteq SoftwareEncoders

\* C21: an iteration compiled for a camera that prefers acceleration while
\* thread_state records it as unavailable, with a non-copy output codec
C21_Witness ==
    /\ build.called = "run_ffmpeg_for_camera"
    /\ build.result.kind = "ok"
    /\ Get(build.input, "hwaccel", TRUE)
    /\ ~build.hwaccel_available
    /\ Get(build.input, "output_codec", "copy") = "h265"
    /\ Encoders(OutputLegs(build.result.cmd)[1]) = {"libx264"}

\* the camera mapping with another password in the place of its own
WithPassword(cam_info, password) ==
    IF Get(cam_info, "rtsp_path", "/stream1") \in PathsWithCredentials
       THEN [cam_info EXCEPT !.rtsp_path = CredentialPath(password)]
       ELSE [cam_info EXCEPT !.pass = password]

\* C22: the logged command line does not depend on the password of the
\* camera: whatever password the input url carried, user:pass@ or
\* password=<secret>, the sanitized url is the same, and every other argument
\* of the command is logged unchanged.
C22_Redaction ==
    build.logged =>
        \A password \in Passwords :
            build.sanitized_command_str =
                Join([i \in 1..Len(build.result.cmd) |->
                         IF build.result.cmd[i] = get_input_url(build.input)
                            THEN Sanitized(get_input_url(WithPassword(build.input, password)))
                            ELSE build.result.cmd[i]])

=============================================================================
